---- MODULE Spec2Model ----
(***************************************************************************)
(* A model of the bpmn-co collaboration server (src/server).               *)
(*                                                                         *)
(* Scheduling.  The server is one asyncio event loop.  A task runs until   *)
(* it awaits the transport (websocket.accept, send_text, receive_text, or  *)
(* the gather of a broadcast).  Acquiring the store's asyncio.Lock never   *)
(* suspends, because no store operation awaits while it holds the lock,    *)
(* so the code between two transport awaits is one step of the model.      *)
(*                                                                         *)
(* What is under src/ and what is not.  managers/state_manager.py holds    *)
(* the document, the users and the locks; the diagram lifecycle the        *)
(* handlers use (is_initialized, template, initialize_diagram,             *)
(* reset_diagram, should_reset) and the session id are not in it and are   *)
(* modelled from the specification.  main.py holds a websocket endpoint    *)
(* that works on a registry and a document of its own and calls none of    *)
(* the handlers of event_handlers.py; the endpoint that drives those       *)
(* handlers is modelled from the specification.                            *)
(***************************************************************************)
EXTENDS Integers, Sequences, FiniteSets, TLC

\* ------------------------------------------------------------- bounds
\* Connections admitted over a run (each takes a fresh user id).
MaxUsers == 2

\* ------------------------------------------------------------- values
WebSockets == {"w1", "w2"}
Elements == {"e1", "e2"}
Names == {"QuickFox1"}
NewNames == Names
Callers == {"c1", "c2"}
CallerUsers == {"u1", "u2"}

\* Python's None, as a user id, a string, a socket, a users map, a lock map.
NoUser == "None"
NoString == "None"
NoSocket == "None"
NoUsers == ("None" :> "None")
NoLocks == ("None" :> "None")
EmptyUsers == [u \in {} |-> "None"]
EmptyLocks == [e \in {} |-> "None"]

\* str(uuid.uuid4()): the n-th identifier drawn is unlike every earlier one.
uuid4(n) == "u" \o ToString(n)

Restrict(f, S) == [x \in S |-> f[x]]

\* templates/constants.py
TEMPLATES == {"blank", "simple-process", "approval-workflow", "cross-functional"}
DEFAULT_TEMPLATE == "blank"
RequestedTemplates == {"simple-process", "blank", "invalid-template", NoString, ""}

is_valid_template(template) == template \in TEMPLATES

\* A selector taken as it comes, valid or not.
get_template_unchecked(template) == template

get_template_or_default(template) ==
    IF template # NoString /\ template # "" /\ is_valid_template(template)
    THEN template
    ELSE DEFAULT_TEMPLATE

\* templates/loader.py: the content of <name>.bpmn.
load_template(template_name) == template_name \o ".bpmn"

\* managers/util.py
load_initial_xml == "empty.bpmn"
ValidDocs == {"<a/>", "<b/>", "<c/>"}
InvalidDocs == {"<a>"}
is_valid_xml(xml) == xml \in ValidDocs

\* Frames that handle_json_validation turns away: text that is not JSON, a
\* type no message model has, a message a model's validation rejects.
RejectedFrames ==
    {"not json",
     "{\"type\": \"ping\"}",
     "{\"xml\": \"<a/>\"}",
     "{\"type\": \"xml_update\"}",
     "{\"type\": \"xml_update\", \"xml\": \"\"}",
     "{\"type\": \"user_name_update\", \"name\": \"\"}",
     "{\"type\": \"user_name_update\", \"name\": <101 characters>}",
     "{\"type\": \"element_deselect\"}",
     "{\"type\": \"element_deselect\", \"element_id\": \"\"}"}
\* Frames that are JSON but no object: json.loads gives a list, which has no
\* get method.
NonObjectFrames == {"[1]"}
is_valid_json(data) == data # "not json"

\* A display name of 101 characters.
LongName ==
    "nnnnnnnnnnnnnnnnnnnnnnnnnnnnnnnnnnnnnnnnnnnnnnnnnnnnnnnnnnnnnnnnnnnnnnnnnnnnnnnnnnnnnnnnnnnnnnnnnnnnn"

\* json.loads of the object frames above.
json_loads(data) ==
    CASE data = "{\"type\": \"ping\"}" -> [type |-> "ping"]
      [] data = "{\"xml\": \"<a/>\"}" -> [xml |-> "<a/>"]
      [] data = "{\"type\": \"xml_update\"}" -> [type |-> "xml_update"]
      [] data = "{\"type\": \"xml_update\", \"xml\": \"\"}"
            -> [type |-> "xml_update", xml |-> ""]
      [] data = "{\"type\": \"user_name_update\", \"name\": \"\"}"
            -> [type |-> "user_name_update", name |-> ""]
      [] data = "{\"type\": \"user_name_update\", \"name\": <101 characters>}"
            -> [type |-> "user_name_update", name |-> LongName]
      [] data = "{\"type\": \"element_deselect\"}"
            -> [type |-> "element_deselect"]
      [] data = "{\"type\": \"element_deselect\", \"element_id\": \"\"}"
            -> [type |-> "element_deselect", element_id |-> ""]

\* models.py: whether pydantic builds the message model from the object.
NameMaxLength == 100
XmlUpdateValidates(raw) == "xml" \in DOMAIN raw /\ Len(raw.xml) >= 1
UserNameUpdateValidates(raw) ==
    /\ "name" \in DOMAIN raw
    /\ Len(raw.name) >= 1
    /\ Len(raw.name) <= NameMaxLength
ElementSelectValidates(raw) == TRUE
ElementDeselectValidates(raw) ==
    "element_id" \in DOMAIN raw /\ Len(raw.element_id) >= 1
MessageTypes ==
    {"xml_update", "user_name_update", "element_select", "element_deselect"}
Validates(raw) ==
    CASE raw.type = "xml_update" -> XmlUpdateValidates(raw)
      [] raw.type = "user_name_update" -> UserNameUpdateValidates(raw)
      [] raw.type = "element_select" -> ElementSelectValidates(raw)
      [] raw.type = "element_deselect" -> ElementDeselectValidates(raw)

\* ------------------------------------------------------------- the store
\* StateManager.__init__, with the lifecycle fields of the specification.
NewStateManager ==
    [xml |-> load_initial_xml,
     users |-> EmptyUsers,
     locked_elements |-> EmptyLocks,
     is_initialized |-> FALSE,
     template |-> NoString,
     session_id |-> 1]

get_full_state(sm) ==
    [xml |-> sm.xml, users |-> sm.users, locked_elements |-> sm.locked_elements]

get_users(sm) == sm.users

get_locked_elements(sm) == sm.locked_elements

\* An update that writes after what is stored instead of replacing it.
update_xml_append(sm, new_xml) ==
    IF ~is_valid_xml(new_xml)
    THEN [sm |-> sm,
          resp |-> [success |-> FALSE, xml |-> NoString,
                    error |-> "Invalid XML provided"]]
    ELSE LET s2 == [sm EXCEPT !.xml = @ \o new_xml]
         IN [sm |-> s2,
             resp |-> [success |-> TRUE, xml |-> s2.xml, error |-> NoString]]

update_xml(sm, new_xml) ==
    IF ~is_valid_xml(new_xml)
    THEN [sm |-> sm,
          resp |-> [success |-> FALSE, xml |-> NoString,
                    error |-> "Invalid XML provided"]]
    ELSE LET s2 == [sm EXCEPT !.xml = new_xml]
         IN [sm |-> s2,
             resp |-> [success |-> TRUE, xml |-> s2.xml, error |-> NoString]]

\* An add_user that writes the name whether or not the id is present.
add_user_overwrite(sm, id, name) ==
    LET s2 == [sm EXCEPT !.users = (id :> name) @@ @]
    IN [sm |-> s2,
        resp |-> [success |-> TRUE, users |-> s2.users, error |-> NoString]]

add_user(sm, id, name) ==
    IF id \in DOMAIN sm.users
    THEN [sm |-> sm,
          resp |-> [success |-> FALSE, users |-> NoUsers,
                    error |-> "User with this ID already exists"]]
    ELSE LET s2 == [sm EXCEPT !.users = (id :> name) @@ @]
         IN [sm |-> s2,
             resp |-> [success |-> TRUE, users |-> s2.users, error |-> NoString]]

remove_user(sm, id) ==
    IF id \notin DOMAIN sm.users
    THEN [sm |-> sm,
          resp |-> [success |-> FALSE, users |-> NoUsers,
                    error |-> "User with this ID does not exist"]]
    ELSE LET s2 == [sm EXCEPT !.users = Restrict(@, DOMAIN @ \ {id})]
         IN [sm |-> s2,
             resp |-> [success |-> TRUE, users |-> s2.users, error |-> NoString]]

update_user_name(sm, id, name) ==
    IF id \notin DOMAIN sm.users
    THEN [sm |-> sm,
          resp |-> [success |-> FALSE, users |-> NoUsers,
                    error |-> "User with this ID does not exist"]]
    ELSE LET s2 == [sm EXCEPT !.users = (id :> name) @@ @]
         IN [sm |-> s2,
             resp |-> [success |-> TRUE, users |-> s2.users, error |-> NoString]]

\* locked_elements.get(element_id) is not None
IsLocked(sm, element_id) ==
    /\ element_id \in DOMAIN sm.locked_elements
    /\ sm.locked_elements[element_id] # NoUser

lock_element_overwrite(sm, user_id, element_id) ==
    LET s2 == [sm EXCEPT !.locked_elements = (element_id :> user_id) @@ @]
    IN [sm |-> s2,
        resp |-> [success |-> TRUE, locked_elements |-> s2.locked_elements,
                  error |-> NoString]]

\* A lock_element that lets the owner of an element lock it again.
lock_element_reentrant(sm, user_id, element_id) ==
    IF IsLocked(sm, element_id) /\ sm.locked_elements[element_id] # user_id
    THEN [sm |-> sm,
          resp |-> [success |-> FALSE, locked_elements |-> NoLocks,
                    error |-> "Element is already locked"]]
    ELSE LET s2 == [sm EXCEPT !.locked_elements = (element_id :> user_id) @@ @]
         IN [sm |-> s2,
             resp |-> [success |-> TRUE, locked_elements |-> s2.locked_elements,
                       error |-> NoString]]

lock_element(sm, user_id, element_id) ==
    IF IsLocked(sm, element_id)
    THEN [sm |-> sm,
          resp |-> [success |-> FALSE, locked_elements |-> NoLocks,
                    error |-> "Element is already locked"]]
    ELSE LET s2 == [sm EXCEPT !.locked_elements = (element_id :> user_id) @@ @]
         IN [sm |-> s2,
             resp |-> [success |-> TRUE, locked_elements |-> s2.locked_elements,
                       error |-> NoString]]

\* locked_elements.get(element_id) != user_id
OwnedBy(sm, element_id) ==
    IF element_id \in DOMAIN sm.locked_elements
    THEN sm.locked_elements[element_id]
    ELSE NoUser

unlock_element(sm, user_id, element_id) ==
    IF OwnedBy(sm, element_id) # user_id
    THEN [sm |-> sm,
          resp |-> [success |-> FALSE, locked_elements |-> NoLocks,
                    error |-> "Element is not locked by this user"]]
    ELSE LET s2 == [sm EXCEPT !.locked_elements = Restrict(@, DOMAIN @ \ {element_id})]
         IN [sm |-> s2,
             resp |-> [success |-> TRUE, locked_elements |-> s2.locked_elements,
                       error |-> NoString]]

\* A clearing that does not ask whether the user is registered.
clear_locks_by_user_unchecked(sm, user_id) ==
    LET elements_to_unlock ==
            {e \in DOMAIN sm.locked_elements : sm.locked_elements[e] = user_id}
        s2 == [sm EXCEPT !.locked_elements =
                             Restrict(@, DOMAIN @ \ elements_to_unlock)]
    IN [sm |-> s2,
        resp |-> [success |-> TRUE, locked_elements |-> s2.locked_elements,
                  error |-> NoString]]

\* A clearing that empties the lock map.
clear_locks_of_everyone(sm, user_id) ==
    IF user_id \notin DOMAIN sm.users
    THEN [sm |-> sm,
          resp |-> [success |-> FALSE, locked_elements |-> NoLocks,
                    error |-> "User with this ID does not exist"]]
    ELSE [sm |-> [sm EXCEPT !.locked_elements = EmptyLocks],
          resp |-> [success |-> TRUE, locked_elements |-> EmptyLocks,
                    error |-> NoString]]

clear_locks_by_user(sm, user_id) ==
    IF user_id \notin DOMAIN sm.users
    THEN [sm |-> sm,
          resp |-> [success |-> FALSE, locked_elements |-> NoLocks,
                    error |-> "User with this ID does not exist"]]
    ELSE LET elements_to_unlock ==
                 {e \in DOMAIN sm.locked_elements : sm.locked_elements[e] = user_id}
             s2 == [sm EXCEPT !.locked_elements =
                                  Restrict(@, DOMAIN @ \ elements_to_unlock)]
         IN [sm |-> s2,
             resp |-> [success |-> TRUE, locked_elements |-> s2.locked_elements,
                       error |-> NoString]]

\* The diagram lifecycle of the store (specification, 4.3 and 4.5).
initialize_diagram(sm, template) ==
    IF sm.is_initialized
    THEN [sm |-> sm, raised |-> TRUE]
    ELSE [sm |-> [sm EXCEPT !.template = get_template_or_default(template),
                            !.xml = load_template(get_template_or_default(template)),
                            !.is_initialized = TRUE],
          raised |-> FALSE]

should_reset(sm) == DOMAIN sm.users = {}

reset_diagram(sm) ==
    [sm EXCEPT !.users = EmptyUsers,
               !.locked_elements = EmptyLocks,
               !.session_id = @ + 1,
               !.xml = load_initial_xml,
               !.template = NoString,
               !.is_initialized = FALSE]

\* ------------------------------------------------------------- the registry
\* ConnectionManager.__init__
NewConnectionManager ==
    [active_connections |-> {}, ws_uid_map |-> [w \in {} |-> NoUser]]

\* ConnectionManager.connect once websocket.accept() has returned.
connect(cm, websocket, user_id) ==
    [cm |-> [cm EXCEPT !.active_connections = @ \cup {websocket},
                       !.ws_uid_map = (websocket :> user_id) @@ @],
     resp |-> [success |-> TRUE, user_id |-> user_id, error |-> NoString]]

\* ConnectionManager.connect when websocket.accept() raises.
connect_failed(cm) ==
    [cm |-> cm,
     resp |-> [success |-> FALSE, user_id |-> NoUser, error |-> "Connection error"]]

disconnect(cm, websocket) ==
    [cm |-> [cm EXCEPT !.active_connections = @ \ {websocket},
                       !.ws_uid_map = Restrict(@, DOMAIN @ \ {websocket})],
     resp |-> [success |-> TRUE,
               user_id |-> IF websocket \in DOMAIN cm.ws_uid_map
                           THEN cm.ws_uid_map[websocket]
                           ELSE NoUser,
               error |-> NoString]]

get_user_id_by_ws(cm, websocket) ==
    IF websocket \in DOMAIN cm.ws_uid_map THEN cm.ws_uid_map[websocket] ELSE NoUser

\* One delivery attempt: the message, its addressee, whether send_text returned.
Delivery(websocket, message, ok) == [to |-> websocket, msg |-> message, ok |-> ok]

send_direct_message(websocket, message, ok) == {Delivery(websocket, message, ok)}

\* The connections a broadcast builds a _safe_send for.
Recipients(cm, exclude) == cm.active_connections \ {exclude}

\* _safe_send on each of `failed` raises in send_text and disconnects it.
RECURSIVE DisconnectAll(_, _)
DisconnectAll(cm, failed) ==
    IF failed = {}
    THEN cm
    ELSE LET w == CHOOSE x \in failed : TRUE
         IN DisconnectAll(disconnect(cm, w).cm, failed \ {w})

\* A broadcast that leaves the connections whose send failed registered.
broadcast_keep_failed(cm, message, exclude, failed) ==
    [cm |-> cm,
     sent |-> {Delivery(w, message, w \notin failed) : w \in Recipients(cm, exclude)}]

broadcast(cm, message, exclude, failed) ==
    [cm |-> DisconnectAll(cm, failed \cap Recipients(cm, exclude)),
     sent |-> {Delivery(w, message, w \notin failed) : w \in Recipients(cm, exclude)}]

\* ------------------------------------------------------------- the handlers
handle_initial_connection_event_add_only(sm, connection_response, template, name) ==
    IF ~connection_response.success
    THEN sm
    ELSE add_user(sm, connection_response.user_id, name).sm

\* A connect handler that does not look at the connection response.
handle_initial_connection_event_unchecked(sm, connection_response, template, name) ==
    LET added == add_user(sm, connection_response.user_id, name).sm
    IN IF ~added.is_initialized
       THEN initialize_diagram(added, template).sm
       ELSE added

\* handle_initial_connection_event, up to the snapshot: the store it leaves.
handle_initial_connection_event_store(sm, connection_response, template, name) ==
    IF ~connection_response.success
    THEN sm
    ELSE LET added == add_user(sm, connection_response.user_id, name).sm
         IN IF ~added.is_initialized
            THEN initialize_diagram(added, template).sm
            ELSE added

\* The init message: json.dumps of type, user_id, user_name and **full_state.
InitMessage(sm, user_id) ==
    [type |-> "init", user_id |-> user_id,
     user_name |-> get_full_state(sm).users[user_id]] @@ get_full_state(sm)

UsersUpdate(users) == [type |-> "users_update", users |-> users]

LockedElementsUpdate(locked_elements) ==
    [type |-> "locked_elements_update", locked_elements |-> locked_elements]

XmlUpdate(xml) == [type |-> "xml_update", xml |-> xml]

ErrorMessage(message) == [type |-> "error", message |-> message]

\* json.dumps of a text (None is null), and of the response update_xml returns.
json_dumps_str(text) ==
    IF text = NoString THEN "null" ELSE "\"" \o text \o "\""
json_dumps_response(resp) ==
    "{\"success\": " \o (IF resp.success THEN "true" ELSE "false")
        \o ", \"xml\": " \o json_dumps_str(resp.xml)
        \o ", \"error\": " \o json_dumps_str(resp.error) \o "}"

\* handle_json_validation on a frame that yields no message: the error goes
\* to the sender alone and None is returned, or raw_message.get raises the
\* AttributeError that except ValidationError does not catch.
\* raw_message.get("type")
message_type_of(raw_message) ==
    IF "type" \in DOMAIN raw_message THEN raw_message.type ELSE NoString

\* A router that lets a message through whatever its fields are.
handle_json_validation_unvalidated(websocket, data, ok) ==
    IF ~is_valid_json(data)
    THEN [sent |-> send_direct_message(
                       websocket, ErrorMessage("Invalid JSON format"), ok),
          raised |-> FALSE]
    ELSE IF data \in NonObjectFrames
    THEN [sent |-> {}, raised |-> TRUE]
    ELSE IF message_type_of(json_loads(data)) \notin MessageTypes
    THEN [sent |-> send_direct_message(
                       websocket,
                       ErrorMessage("Unknown message type: "
                                        \o message_type_of(json_loads(data))),
                       ok),
          raised |-> FALSE]
    ELSE [sent |-> {}, raised |-> FALSE]

handle_json_validation(websocket, data, ok) ==
    IF ~is_valid_json(data)
    THEN [sent |-> send_direct_message(
                       websocket, ErrorMessage("Invalid JSON format"), ok),
          raised |-> FALSE]
    ELSE IF data \in NonObjectFrames
    THEN [sent |-> {}, raised |-> TRUE]
    ELSE IF message_type_of(json_loads(data)) \notin MessageTypes
    THEN [sent |-> send_direct_message(
                       websocket,
                       ErrorMessage("Unknown message type: "
                                        \o message_type_of(json_loads(data))),
                       ok),
          raised |-> FALSE]
    ELSE IF ~Validates(json_loads(data))
    THEN [sent |-> send_direct_message(
                       websocket, ErrorMessage("Validation error"), ok),
          raised |-> FALSE]
    ELSE [sent |-> {}, raised |-> FALSE]

\* handle_xml_update_event: update_xml returns its response, which is broadcast.
handle_xml_update_event(sm, cm, websocket, xml, failed) ==
    LET r == update_xml(sm, xml)
        b == broadcast(cm, XmlUpdate(r.resp), websocket, failed)
    IN [sm |-> r.sm, cm |-> b.cm, sent |-> b.sent]

handle_user_name_update_event(sm, cm, websocket, user_id, name, failed) ==
    LET r == update_user_name(sm, user_id, name)
        b == broadcast(cm, UsersUpdate(r.resp), NoSocket, failed)
    IN [sm |-> r.sm, cm |-> b.cm, sent |-> b.sent]

\* The loop over message.element_ids: no lock_element call raises.
\* A loop that gives up at the first element it cannot lock.
RECURSIVE LockEachUntilFailure(_, _, _)
LockEachUntilFailure(sm, user_id, element_ids) ==
    IF element_ids = << >>
    THEN sm
    ELSE IF ~lock_element(sm, user_id, Head(element_ids)).resp.success
    THEN sm
    ELSE LockEachUntilFailure(lock_element(sm, user_id, Head(element_ids)).sm,
                              user_id, Tail(element_ids))

RECURSIVE LockEach(_, _, _)
LockEach(sm, user_id, element_ids) ==
    IF element_ids = << >>
    THEN sm
    ELSE LockEach(lock_element(sm, user_id, Head(element_ids)).sm,
                  user_id, Tail(element_ids))

\* A selection that keeps the locks the user already holds.
handle_element_select_event_keep(sm, cm, user_id, element_ids, failed) ==
    LET locked == LockEach(sm, user_id, element_ids)
        b == broadcast(cm, LockedElementsUpdate(get_locked_elements(locked)),
                       NoSocket, failed)
    IN [sm |-> locked, cm |-> b.cm, sent |-> b.sent]

\* A selection that releases what the user holds and locks only what it
\* did not hold.
handle_element_select_event_release(sm, cm, user_id, element_ids, failed) ==
    LET cleared == clear_locks_by_user(sm, user_id).sm
        NotHeld(e) == OwnedBy(sm, e) # user_id
        locked == LockEach(cleared, user_id, SelectSeq(element_ids, NotHeld))
        b == broadcast(cm, LockedElementsUpdate(get_locked_elements(locked)),
                       NoSocket, failed)
    IN [sm |-> locked, cm |-> b.cm, sent |-> b.sent]

handle_element_select_event(sm, cm, user_id, element_ids, failed) ==
    LET cleared == clear_locks_by_user(sm, user_id).sm
        locked == LockEach(cleared, user_id, element_ids)
        b == broadcast(cm, LockedElementsUpdate(get_locked_elements(locked)),
                       NoSocket, failed)
    IN [sm |-> locked, cm |-> b.cm, sent |-> b.sent]

handle_element_deselect_event(sm, cm, user_id, element_id, failed) ==
    LET r == unlock_element(sm, user_id, element_id)
        b == broadcast(cm, LockedElementsUpdate(r.resp), NoSocket, failed)
    IN [sm |-> r.sm, cm |-> b.cm, sent |-> b.sent]

\* handle_flush_user_data, the store it leaves: clear the locks, remove the user.
handle_flush_user_data_keep_user(sm, user_id) ==
    clear_locks_by_user(sm, user_id).sm

handle_flush_user_data_keep_locks(sm, user_id) ==
    remove_user(sm, user_id).sm

handle_flush_user_data_store(sm, user_id) ==
    remove_user(clear_locks_by_user(sm, user_id).sm, user_id).sm

\* ------------------------------------------------------------- state
VARIABLES
    state_manager,       \* the StateManager singleton
    connection_manager,  \* the ConnectionManager singleton
    pc,                  \* where each connection's task stands
    task_uid,            \* the user id each connection's task holds
    task_template,       \* the template selector each connection opened with
    next_uid,            \* how many user ids uuid4 has drawn, plus one
    outbox,              \* the deliveries the last step attempted
    inbox,               \* what the transport gave the task in the last step
    call,                \* the store call each direct caller has in hand
    holders,             \* per element, the callers' users told they hold it
    doc_call,            \* the document call each direct caller has in hand
    client_copy,         \* what each client keeps of the last messages it saw
    upstream,            \* per connection, the frames sent and not yet received
    downstream           \* per connection, the messages sent and not yet delivered

server ==
    <<connection_manager, pc, task_uid, task_template, next_uid, outbox, inbox>>
harness == <<call, holders, doc_call>>
clients == <<client_copy, upstream, downstream>>
vars == <<state_manager, server, harness, clients>>

\* What receive_text gave a task: the frame's text when the router rejects
\* it, the validated message of models.py when it does not; with a selection
\* message, the elements the sender's user owned when it arrived.
Frame(websocket, message, held) ==
    [from |-> websocket, message |-> message, held |-> held]
NoFrame == Frame(NoSocket, [type |-> NoString], {})
RawFrame(data) == [type |-> "raw", data |-> data]
\* The exception websocket.accept() raised, in place of a frame.
AcceptError == [type |-> "accept_error"]
XmlUpdateMessage(xml) == [type |-> "xml_update", xml |-> xml]
UserNameUpdateMessage(name) == [type |-> "user_name_update", name |-> name]
ElementSelectMessage(element_ids) ==
    [type |-> "element_select", element_ids |-> element_ids]
ElementDeselectMessage(element_id) ==
    [type |-> "element_deselect", element_id |-> element_id]

HeldBy(sm, user_id) ==
    {e \in DOMAIN sm.locked_elements : sm.locked_elements[e] = user_id}

\* A client that has seen no message yet.
NoCopy ==
    [known |-> FALSE, xml |-> "null", users |-> EmptyUsers,
     locked_elements |-> EmptyLocks]

IdleCall ==
    [status |-> "idle", op |-> NoString, user_id |-> NoUser,
     element_id |-> NoString, name |-> NoString, free |-> FALSE,
     peer |-> NoString, success |-> FALSE, error |-> NoString]

DocCallers == {"d1", "d2", "d3"}
IdleDocCall ==
    [status |-> "idle", op |-> NoString, arg |-> NoString, success |-> FALSE,
     xml |-> NoString, overlap |-> {}]

Init ==
    /\ state_manager = NewStateManager
    /\ connection_manager = NewConnectionManager
    /\ pc = [w \in WebSockets |-> "idle"]
    /\ task_uid = [w \in WebSockets |-> NoUser]
    /\ task_template = [w \in WebSockets |-> NoString]
    /\ next_uid = 1
    /\ outbox = {}
    /\ inbox = NoFrame
    /\ call = [c \in Callers |-> IdleCall]
    /\ holders = [e \in Elements |-> {}]
    /\ doc_call = [c \in DocCallers |-> IdleDocCall]
    /\ client_copy = [w \in WebSockets |-> NoCopy]
    /\ upstream = [w \in WebSockets |-> << >>]
    /\ downstream = [w \in WebSockets |-> << >>]

\* The element_ids lists of the element_select messages clients send.
SelectLists == {<< >>, <<"e1">>, <<"e2">>, <<"e1", "e2">>}
\* The documents of the xml_update messages clients send.
ClientDocs == {"<a/>", "<a>"}

\* ------------------------------------------------------------- the endpoint
\* A client opens a connection: its task starts and awaits websocket.accept().
OpenConnection(w) ==
    /\ pc[w] = "idle"
    /\ next_uid <= MaxUsers
    /\ pc' = [pc EXCEPT ![w] = "accepting"]
    /\ \E template \in RequestedTemplates :
         task_template' = [task_template EXCEPT ![w] = template]
    /\ outbox' = {}
    /\ inbox' = NoFrame
    /\ UNCHANGED <<clients, harness, state_manager, connection_manager, task_uid, next_uid>>

\* accept() raises: connect reports the failure, the handler returns at once.
AcceptFailed(w) ==
    /\ pc[w] = "accepting"
    /\ LET c == connect_failed(connection_manager)
       IN /\ connection_manager' = c.cm
          /\ state_manager' =
                 handle_initial_connection_event_store(
                     state_manager, c.resp, task_template[w], NoString)
          /\ outbox' = IF c.resp.success
                       THEN send_direct_message(
                                w, InitMessage(state_manager', c.resp.user_id), TRUE)
                       ELSE {}
    /\ pc' = [pc EXCEPT ![w] = "idle"]
    /\ task_template' = [task_template EXCEPT ![w] = NoString]
    /\ inbox' = Frame(w, AcceptError, {})
    /\ UNCHANGED <<clients, harness, task_uid, next_uid>>

\* accept() returns: the connection is registered, the user added, the diagram
\* initialized if it is not, and the init message handed to send_text.
Accepted(w) ==
    /\ pc[w] = "accepting"
    /\ \E name \in Names, ok \in BOOLEAN :
         LET c == connect(connection_manager, w, uuid4(next_uid))
             sm == handle_initial_connection_event_store(
                       state_manager, c.resp, task_template[w], name)
         IN /\ connection_manager' = c.cm
            /\ state_manager' = sm
            /\ task_uid' = [task_uid EXCEPT ![w] = c.resp.user_id]
            /\ outbox' = send_direct_message(
                             w, InitMessage(sm, c.resp.user_id), ok)
    /\ inbox' = NoFrame
    /\ next_uid' = next_uid + 1
    /\ task_template' = [task_template EXCEPT ![w] = NoString]
    /\ pc' = [pc EXCEPT ![w] = "init_sent"]
    /\ UNCHANGED <<clients, harness>>

\* send_direct_message has returned: the users are broadcast to the others.
\* full_state["users"] is the store's own users dict, not a copy of it, so
\* the message is built from the users as they are now.
AnnounceUser(w) ==
    /\ pc[w] = "init_sent"
    /\ \E failed \in SUBSET Recipients(connection_manager, w) :
         LET b == broadcast(connection_manager,
                            UsersUpdate(get_full_state(state_manager).users),
                            w, failed)
         IN /\ connection_manager' = b.cm
            /\ outbox' = b.sent
    /\ inbox' = NoFrame
    /\ pc' = [pc EXCEPT ![w] = "loop"]
    /\ UNCHANGED <<clients, harness, state_manager, task_uid, task_template, next_uid>>

ReceiveXmlUpdate(w) ==
    /\ pc[w] = "loop"
    /\ \E xml \in ClientDocs,
          failed \in SUBSET Recipients(connection_manager, w) :
         LET h == handle_xml_update_event(
                      state_manager, connection_manager, w, xml, failed)
         IN /\ state_manager' = h.sm
            /\ connection_manager' = h.cm
            /\ outbox' = h.sent
            /\ inbox' = Frame(w, XmlUpdateMessage(xml), {})
    /\ UNCHANGED <<clients, harness, pc, task_uid, task_template, next_uid>>

ReceiveUserNameUpdate(w) ==
    /\ pc[w] = "loop"
    /\ \E name \in NewNames,
          failed \in SUBSET Recipients(connection_manager, NoSocket) :
         LET h == handle_user_name_update_event(
                      state_manager, connection_manager, w, task_uid[w],
                      name, failed)
         IN /\ state_manager' = h.sm
            /\ connection_manager' = h.cm
            /\ outbox' = h.sent
            /\ inbox' = Frame(w, UserNameUpdateMessage(name), {})
    /\ UNCHANGED <<clients, harness, pc, task_uid, task_template, next_uid>>

\* A frame that does not validate: the sender gets an error, nothing changes.
ReceiveRejected(w) ==
    /\ pc[w] = "loop"
    /\ \E data \in RejectedFrames, ok \in BOOLEAN :
         LET v == handle_json_validation(w, data, ok)
         IN /\ ~v.raised
            /\ outbox' = v.sent
            /\ inbox' = Frame(w, RawFrame(data), {})
    /\ UNCHANGED <<clients, harness, state_manager, connection_manager, pc, task_uid,
                   task_template, next_uid>>

ReceiveElementSelect(w) ==
    /\ pc[w] = "loop"
    /\ \E element_ids \in SelectLists,
          failed \in SUBSET Recipients(connection_manager, NoSocket) :
         LET h == handle_element_select_event(
                      state_manager, connection_manager, task_uid[w],
                      element_ids, failed)
         IN /\ state_manager' = h.sm
            /\ connection_manager' = h.cm
            /\ outbox' = h.sent
            /\ inbox' = Frame(w, ElementSelectMessage(element_ids),
                              HeldBy(state_manager, task_uid[w]))
    /\ UNCHANGED <<clients, harness, pc, task_uid, task_template, next_uid>>

ReceiveElementDeselect(w) ==
    /\ pc[w] = "loop"
    /\ \E element_id \in Elements,
          failed \in SUBSET Recipients(connection_manager, NoSocket) :
         LET h == handle_element_deselect_event(
                      state_manager, connection_manager, task_uid[w],
                      element_id, failed)
         IN /\ state_manager' = h.sm
            /\ connection_manager' = h.cm
            /\ outbox' = h.sent
            /\ inbox' = Frame(w, ElementDeselectMessage(element_id),
                              HeldBy(state_manager, task_uid[w]))
    /\ UNCHANGED <<clients, harness, pc, task_uid, task_template, next_uid>>

\* receive_text raises (the transport closed), or handle_json_validation
\* raises on the frame received: the connection is evicted, its user flushed
\* and the users broadcast.
Closed == "closed"
Terminate(w) ==
    /\ pc[w] = "loop"
    /\ \E data \in {Closed} \cup NonObjectFrames :
         /\ data # Closed => handle_json_validation(w, data, TRUE).raised
         /\ inbox' = IF data = Closed THEN NoFrame ELSE Frame(w, RawFrame(data), {})
    /\ LET cm == disconnect(connection_manager, w).cm
           sm == handle_flush_user_data_store(state_manager, task_uid[w])
       IN /\ state_manager' = sm
          /\ \E failed \in SUBSET Recipients(cm, NoSocket) :
               LET b == broadcast(cm, UsersUpdate(get_users(sm)), NoSocket, failed)
               IN /\ connection_manager' = b.cm
                  /\ outbox' = b.sent
    /\ pc' = [pc EXCEPT ![w] = "flush_users_sent"]
    /\ UNCHANGED <<clients, harness, task_uid, task_template, next_uid>>

\* The second broadcast of handle_flush_user_data.
FlushLocks(w) ==
    /\ pc[w] = "flush_users_sent"
    /\ \E failed \in SUBSET Recipients(connection_manager, NoSocket) :
         LET b == broadcast(connection_manager,
                            LockedElementsUpdate(get_locked_elements(state_manager)),
                            NoSocket, failed)
         IN /\ connection_manager' = b.cm
            /\ outbox' = b.sent
    /\ inbox' = NoFrame
    /\ pc' = [pc EXCEPT ![w] = "flush_locks_sent"]
    /\ UNCHANGED <<clients, harness, state_manager, task_uid, task_template, next_uid>>

\* The cleanup ends: the diagram is reset if no user is left, the task exits.
Exit(w) ==
    /\ pc[w] = "flush_locks_sent"
    /\ state_manager' = IF should_reset(state_manager)
                        THEN reset_diagram(state_manager)
                        ELSE state_manager
    /\ pc' = [pc EXCEPT ![w] = "idle"]
    /\ task_uid' = [task_uid EXCEPT ![w] = NoUser]
    /\ outbox' = {}
    /\ inbox' = NoFrame
    /\ UNCHANGED <<clients, harness, connection_manager, task_template, next_uid>>

Next ==
    \E w \in WebSockets :
        \/ OpenConnection(w)
        \/ AcceptFailed(w)
        \/ Accepted(w)
        \/ AnnounceUser(w)
        \/ ReceiveXmlUpdate(w)
        \/ ReceiveUserNameUpdate(w)
        \/ ReceiveRejected(w)
        \/ ReceiveElementSelect(w)
        \/ ReceiveElementDeselect(w)
        \/ Terminate(w)
        \/ FlushLocks(w)
        \/ Exit(w)

Spec == Init /\ [][Next]_vars

\* ------------------------------------------------------------- direct callers
\* The names direct callers rename a user to.
RenamedTo == {"Ada"}

\* Callers that await the store's user and lock operations themselves, as
\* tests/test_state_manager.py does with asyncio.gather: a call is issued (the
\* coroutine exists), runs as one step when the loop schedules it, and its
\* response is then taken by the caller.
CallShapes ==
    [op : {"lock_element", "unlock_element"}, user_id : CallerUsers,
     element_id : Elements, name : {NoString}]
    \cup [op : {"clear_locks_by_user", "remove_user"}, user_id : CallerUsers,
          element_id : {NoString}, name : {NoString}]
    \cup [op : {"add_user"}, user_id : CallerUsers,
          element_id : {NoString}, name : Names]
    \cup [op : {"update_user_name"}, user_id : CallerUsers,
          element_id : {NoString}, name : RenamedTo]
    \cup [op : {"flush_user_data"}, user_id : CallerUsers,
          element_id : {NoString}, name : {NoString}]
    \cup [op : {"disconnect"}, user_id : {NoUser},
          element_id : {NoString}, name : {NoString}]

\* The callers whose pending call races a lock_element of `user_id` on
\* `element_id`: a lock_element of another user on that element, issued while
\* it was unlocked and not run yet.
RacingLock(c, user_id, element_id) ==
    {d \in Callers \ {c} :
        /\ call[d].status = "pending" /\ call[d].op = "lock_element"
        /\ call[d].element_id = element_id /\ call[d].user_id # user_id
        /\ call[d].free}

Issue(c) ==
    /\ call[c].status = "idle"
    /\ \E shape \in CallShapes :
         call' = [call EXCEPT ![c] =
                     [status |-> "pending", op |-> shape.op,
                      user_id |-> shape.user_id, element_id |-> shape.element_id,
                      name |-> shape.name,
                      free |-> /\ shape.op = "lock_element"
                               /\ ~IsLocked(state_manager, shape.element_id),
                      peer |-> IF /\ shape.op = "lock_element"
                                  /\ ~IsLocked(state_manager, shape.element_id)
                                  /\ RacingLock(c, shape.user_id,
                                                shape.element_id) # {}
                               THEN CHOOSE d \in RacingLock(
                                        c, shape.user_id, shape.element_id) : TRUE
                               ELSE NoString,
                      success |-> FALSE, error |-> NoString]]
    /\ UNCHANGED <<clients, state_manager, holders, doc_call, server>>

Done(c, resp) ==
    [call EXCEPT ![c].status = "done", ![c].success = resp.success,
                 ![c].error = resp.error]

Pending(c, op) == call[c].status = "pending" /\ call[c].op = op

RunAddUser(c) ==
    /\ Pending(c, "add_user")
    /\ LET r == add_user(state_manager, call[c].user_id, call[c].name)
       IN /\ state_manager' = r.sm
          /\ call' = Done(c, r.resp)
    /\ UNCHANGED <<clients, holders, doc_call, server>>

RunUpdateUserName(c) ==
    /\ Pending(c, "update_user_name")
    /\ LET r == update_user_name(state_manager, call[c].user_id, call[c].name)
       IN /\ state_manager' = r.sm
          /\ call' = Done(c, r.resp)
    /\ UNCHANGED <<clients, holders, doc_call, server>>

RunRemoveUser(c) ==
    /\ Pending(c, "remove_user")
    /\ LET r == remove_user(state_manager, call[c].user_id)
       IN /\ state_manager' = r.sm
          /\ call' = Done(c, r.resp)
    /\ UNCHANGED <<clients, holders, doc_call, server>>

RunLockElement(c) ==
    /\ Pending(c, "lock_element")
    /\ LET r == lock_element(state_manager, call[c].user_id, call[c].element_id)
       IN /\ state_manager' = r.sm
          /\ call' = Done(c, r.resp)
          /\ holders' = IF r.resp.success
                        THEN [holders EXCEPT ![call[c].element_id] =
                                                 @ \cup {call[c].user_id}]
                        ELSE holders
    /\ UNCHANGED <<clients, doc_call, server>>

RunUnlockElement(c) ==
    /\ Pending(c, "unlock_element")
    /\ LET r == unlock_element(state_manager, call[c].user_id, call[c].element_id)
       IN /\ state_manager' = r.sm
          /\ call' = Done(c, r.resp)
          /\ holders' = IF r.resp.success
                        THEN [holders EXCEPT ![call[c].element_id] =
                                                 @ \ {call[c].user_id}]
                        ELSE holders
    /\ UNCHANGED <<clients, doc_call, server>>

RunClearLocks(c) ==
    /\ Pending(c, "clear_locks_by_user")
    /\ LET r == clear_locks_by_user(state_manager, call[c].user_id)
       IN /\ state_manager' = r.sm
          /\ call' = Done(c, r.resp)
          /\ holders' = IF r.resp.success
                        THEN [e \in Elements |-> holders[e] \ {call[c].user_id}]
                        ELSE holders
    /\ UNCHANGED <<clients, doc_call, server>>

\* handle_flush_user_data called for a user id, as tests/test_event_handlers.py
\* calls it: the store is flushed and the two updates are broadcast.
RunFlushUserData(c) ==
    /\ Pending(c, "flush_user_data")
    /\ LET sm == handle_flush_user_data_store(state_manager, call[c].user_id)
       IN /\ state_manager' = sm
          /\ \E failed \in SUBSET Recipients(connection_manager, NoSocket) :
               LET users == broadcast(connection_manager,
                                      UsersUpdate(get_users(sm)), NoSocket, failed)
                   locks == broadcast(users.cm,
                                      LockedElementsUpdate(get_locked_elements(sm)),
                                      NoSocket, {})
               IN /\ connection_manager' = locks.cm
                  /\ outbox' = users.sent \cup locks.sent
    /\ call' = Done(c, [success |-> TRUE, error |-> NoString])
    /\ holders' = IF call[c].user_id \in DOMAIN state_manager.users
                  THEN [e \in Elements |-> holders[e] \ {call[c].user_id}]
                  ELSE holders
    /\ UNCHANGED <<clients, doc_call, pc, task_uid, task_template, next_uid, inbox>>

\* ConnectionManager.disconnect called for a connection.
RunDisconnect(c) ==
    /\ Pending(c, "disconnect")
    /\ \E websocket \in WebSockets :
         LET r == disconnect(connection_manager, websocket)
         IN /\ connection_manager' = r.cm
            /\ call' = Done(c, r.resp)
    /\ UNCHANGED <<clients, state_manager, holders, doc_call, pc, task_uid,
                   task_template, next_uid, outbox, inbox>>

\* The caller takes the response and is free to call again.
Return(c) ==
    /\ call[c].status = "done"
    /\ call' = [d \in Callers |->
                   IF d = c THEN IdleCall
                   ELSE IF call[d].peer = c THEN [call[d] EXCEPT !.peer = NoString]
                   ELSE call[d]]
    /\ UNCHANGED <<clients, state_manager, holders, doc_call, server>>

StoreNext ==
    \E c \in Callers :
        \/ Issue(c)
        \/ RunAddUser(c)
        \/ RunUpdateUserName(c)
        \/ RunRemoveUser(c)
        \/ RunLockElement(c)
        \/ RunUnlockElement(c)
        \/ RunClearLocks(c)
        \/ RunFlushUserData(c)
        \/ RunDisconnect(c)
        \/ Return(c)

StoreSpec == Init /\ [][StoreNext]_vars

\* ------------------------------------------------------------- the handlers called directly
\* handle_flush_user_data and handle_element_select_event called as
\* tests/test_event_handlers.py calls them, for any user id, with
\* connections registered to hear the broadcasts.
HandlerOps == {"add_user", "flush_user_data", "connect", "element_select"}

ConnectShapes ==
    [op : {"connect"}, user_id : CallerUsers,
     element_id : {NoString}, name : {NoString}]
    \cup [op : {"element_select"}, user_id : CallerUsers,
          element_id : Elements, name : {NoString}]

HandlerIssue(c) ==
    /\ call[c].status = "idle"
    /\ \E shape \in {x \in CallShapes \cup ConnectShapes : x.op \in HandlerOps} :
         call' = [call EXCEPT ![c] =
                     [IdleCall EXCEPT !.status = "pending", !.op = shape.op,
                                      !.user_id = shape.user_id,
                                      !.element_id = shape.element_id,
                                      !.name = shape.name]]
    /\ UNCHANGED <<clients, state_manager, holders, doc_call, server>>

\* ConnectionManager.connect for a connection, uuid4 drawing the call's id.
RunConnect(c) ==
    /\ Pending(c, "connect")
    /\ \E websocket \in WebSockets :
         LET r == connect(connection_manager, websocket, call[c].user_id)
         IN /\ connection_manager' = r.cm
            /\ call' = Done(c, r.resp)
    /\ outbox' = {}
    /\ UNCHANGED <<clients, state_manager, holders, doc_call, pc, task_uid,
                   task_template, next_uid, inbox>>

\* handle_element_select_event for the call's user and its one element.
RunElementSelect(c) ==
    /\ Pending(c, "element_select")
    /\ \E failed \in SUBSET Recipients(connection_manager, NoSocket) :
         LET h == handle_element_select_event(
                      state_manager, connection_manager, call[c].user_id,
                      <<call[c].element_id>>, failed)
         IN /\ state_manager' = h.sm
            /\ connection_manager' = h.cm
            /\ outbox' = h.sent
            /\ holders' = [e \in Elements |->
                              IF OwnedBy(h.sm, e) = call[c].user_id
                              THEN holders[e] \cup {call[c].user_id}
                              ELSE holders[e] \ {call[c].user_id}]
    /\ call' = Done(c, [success |-> TRUE, error |-> NoString])
    /\ UNCHANGED <<clients, doc_call, pc, task_uid, task_template, next_uid, inbox>>

HandlerNext ==
    \E c \in Callers :
        \/ HandlerIssue(c)
        \/ RunConnect(c)
        \/ RunElementSelect(c)
        \/ RunAddUser(c)
        \/ RunFlushUserData(c)
        \/ Return(c)

HandlerSpec == Init /\ [][HandlerNext]_vars

\* ------------------------------------------------------------- the clients
\* The server seen from its clients: each keeps a copy of the document, the
\* users and the locks, taken from the last message of each type it sent or
\* was delivered; frames and messages stay on the wire until they are read.
MaxInFlight == 2

\* The documents the clients of this view send.
RelayedDocs == {"<a/>", "<b/>"}

\* The messages of one broadcast or direct send put on the wires.
Deliver(wires, sent) ==
    [w \in WebSockets |->
        IF \E d \in sent : d.to = w /\ d.ok
        THEN Append(wires[w], (CHOOSE d \in sent : d.to = w /\ d.ok).msg)
        ELSE wires[w]]

HasRoom(wires) == \A w \in WebSockets : Len(wires[w]) < MaxInFlight

\* The copy a client keeps once it has read a message.
Applied(copy, message) ==
    CASE message.type = "init"
            -> [known |-> TRUE, xml |-> json_dumps_str(message.xml),
                users |-> message.users,
                locked_elements |-> message.locked_elements]
      [] message.type = "users_update"
            -> [copy EXCEPT !.users = message.users]
      [] message.type = "xml_update"
            -> [copy EXCEPT !.xml = json_dumps_response(message.xml)]
      [] OTHER -> copy

\* A client connects: the connect handler runs to its end, the init message
\* and the users_update are on the wires.
ClientOpens(w) ==
    /\ pc[w] = "idle"
    /\ next_uid <= MaxUsers
    /\ HasRoom(downstream)
    /\ \E template \in RequestedTemplates, name \in Names :
         LET c == connect(connection_manager, w, uuid4(next_uid))
             sm == handle_initial_connection_event_store(
                       state_manager, c.resp, template, name)
             init == send_direct_message(w, InitMessage(sm, c.resp.user_id), TRUE)
             b == broadcast(c.cm, UsersUpdate(get_full_state(sm).users), w, {})
         IN /\ connection_manager' = b.cm
            /\ state_manager' = sm
            /\ task_uid' = [task_uid EXCEPT ![w] = c.resp.user_id]
            /\ outbox' = init \cup b.sent
            /\ downstream' = Deliver(downstream, init \cup b.sent)
    /\ next_uid' = next_uid + 1
    /\ pc' = [pc EXCEPT ![w] = "loop"]
    /\ inbox' = NoFrame
    /\ UNCHANGED <<harness, task_template, client_copy, upstream>>

\* A client that has its init message edits the document and sends it.
ClientSends(w) ==
    /\ client_copy[w].known
    /\ Len(upstream[w]) < MaxInFlight
    /\ \E xml \in RelayedDocs :
         /\ client_copy' = [client_copy EXCEPT ![w].xml = json_dumps_str(xml)]
         /\ upstream' = [upstream EXCEPT ![w] = Append(@, XmlUpdateMessage(xml))]
    /\ UNCHANGED <<state_manager, server, harness, downstream>>

\* receive_text gives the task of w its next frame: handle_xml_update_event.
ServerReceives(w) ==
    /\ pc[w] = "loop"
    /\ upstream[w] # << >>
    /\ HasRoom(downstream)
    /\ LET message == Head(upstream[w])
           h == handle_xml_update_event(
                    state_manager, connection_manager, w, message.xml, {})
       IN /\ state_manager' = h.sm
          /\ connection_manager' = h.cm
          /\ outbox' = h.sent
          /\ downstream' = Deliver(downstream, h.sent)
          /\ inbox' = Frame(w, message, {})
    /\ upstream' = [upstream EXCEPT ![w] = Tail(@)]
    /\ UNCHANGED <<harness, pc, task_uid, task_template, next_uid, client_copy>>

\* A client reads the next message the server sent it.
ClientReceives(w) ==
    /\ downstream[w] # << >>
    /\ client_copy' = [client_copy EXCEPT
                           ![w] = Applied(@, Head(downstream[w]))]
    /\ downstream' = [downstream EXCEPT ![w] = Tail(@)]
    /\ UNCHANGED <<state_manager, server, harness, upstream>>

RelayNext ==
    \E w \in WebSockets :
        \/ ClientOpens(w)
        \/ ClientSends(w)
        \/ ServerReceives(w)
        \/ ClientReceives(w)

RelaySpec == Init /\ [][RelayNext]_vars

\* ------------------------------------------------------------- the exclusive section
\* The store operations taken apart as a scheduler that preempts anywhere
\* would run them: "async with self._lock" is entered, the guard is
\* evaluated, then the mutation is made, the response built and the lock
\* released.
SectionOps ==
    {"add_user", "remove_user", "lock_element", "unlock_element",
     "clear_locks_by_user"}

\* A lock nobody ever holds.
never_locked(calls) == FALSE

\* A lock that a caller keeps until it has taken its response.
locked_until_return(calls) ==
    \E c \in Callers : calls[c].status \in {"entered", "checked", "done"}

\* StateManager._lock is held: a caller is inside "async with self._lock".
locked(calls) ==
    \E c \in Callers : calls[c].status \in {"entered", "checked"}

\* The operation of a call as the store runs it in one piece.
Whole(sm, a_call) ==
    CASE a_call.op = "add_user" -> add_user(sm, a_call.user_id, a_call.name)
      [] a_call.op = "remove_user" -> remove_user(sm, a_call.user_id)
      [] a_call.op = "lock_element"
            -> lock_element(sm, a_call.user_id, a_call.element_id)
      [] a_call.op = "unlock_element"
            -> unlock_element(sm, a_call.user_id, a_call.element_id)
      [] a_call.op = "clear_locks_by_user"
            -> clear_locks_by_user(sm, a_call.user_id)

\* The statements under "# Act" of each operation, without its guard.
Mutation(sm, a_call) ==
    CASE a_call.op = "add_user"
            -> [sm EXCEPT !.users = (a_call.user_id :> a_call.name) @@ @]
      [] a_call.op = "remove_user"
            -> [sm EXCEPT !.users = Restrict(@, DOMAIN @ \ {a_call.user_id})]
      [] a_call.op = "lock_element"
            -> [sm EXCEPT !.locked_elements =
                              (a_call.element_id :> a_call.user_id) @@ @]
      [] a_call.op = "unlock_element"
            -> [sm EXCEPT !.locked_elements =
                              Restrict(@, DOMAIN @ \ {a_call.element_id})]
      [] a_call.op = "clear_locks_by_user"
            -> [sm EXCEPT !.locked_elements =
                              Restrict(@, DOMAIN @ \ HeldBy(sm, a_call.user_id))]

SectionIssue(c) ==
    /\ call[c].status = "idle"
    /\ \E shape \in {x \in CallShapes : x.op \in SectionOps} :
         call' = [call EXCEPT ![c] =
                     [IdleCall EXCEPT !.status = "pending", !.op = shape.op,
                                      !.user_id = shape.user_id,
                                      !.element_id = shape.element_id,
                                      !.name = shape.name]]
    /\ UNCHANGED <<clients, state_manager, holders, doc_call, server>>

\* "async with self._lock": the caller goes in when the lock is free.
Enter(c) ==
    /\ call[c].status = "pending"
    /\ ~locked(call)
    /\ call' = [call EXCEPT ![c].status = "entered"]
    /\ UNCHANGED <<clients, state_manager, holders, doc_call, server>>

\* "# Guards": the guard is evaluated on the store as it is now.
Check(c) ==
    /\ call[c].status = "entered"
    /\ call' = [call EXCEPT
                   ![c].status = "checked",
                   ![c].success = Whole(state_manager, call[c]).resp.success,
                   ![c].error = Whole(state_manager, call[c]).resp.error]
    /\ UNCHANGED <<clients, state_manager, holders, doc_call, server>>

\* "# Act" and "# Response": the mutation is made if the guard let it
\* through, the response returned and the lock released.
Act(c) ==
    /\ call[c].status = "checked"
    /\ state_manager' = IF call[c].success
                        THEN Mutation(state_manager, call[c])
                        ELSE state_manager
    /\ call' = [call EXCEPT ![c].status = "done"]
    /\ UNCHANGED <<clients, holders, doc_call, server>>

SectionNext ==
    \E c \in Callers :
        \/ SectionIssue(c)
        \/ Enter(c)
        \/ Check(c)
        \/ Act(c)
        \/ Return(c)

SectionSpec == Init /\ [][SectionNext]_vars

\* The event loop runs every task that can run, and asyncio.Lock wakes its
\* waiters in the order they came: a caller that finds the lock free again
\* and again gets it, and a caller inside the section goes on to its end.
FairSectionSpec ==
    /\ SectionSpec
    /\ \A c \in Callers :
           SF_vars(Enter(c)) /\ WF_vars(Check(c)) /\ WF_vars(Act(c))

\* ------------------------------------------------------------- document callers
\* Callers that await the store's document operations themselves, as
\* tests/test_state_manager.py does with asyncio.gather over update_xml.
MaxSessions == 2

DocShapes ==
    [op : {"update_xml"}, arg : ValidDocs \cup InvalidDocs]
    \cup [op : {"initialize_diagram"}, arg : RequestedTemplates]
    \cup [op : {"reset_diagram"}, arg : {NoString}]

DocIssue(c) ==
    /\ doc_call[c].status = "idle"
    /\ \E shape \in DocShapes :
         doc_call' = [doc_call EXCEPT ![c] =
                         [IdleDocCall EXCEPT !.status = "pending",
                                             !.op = shape.op,
                                             !.arg = shape.arg]]
    /\ UNCHANGED <<clients, state_manager, call, holders, server>>

DocPending(c, op) == doc_call[c].status = "pending" /\ doc_call[c].op = op

\* The callers whose update_xml is issued and has not run when c's call runs.
Overlapping(c) == {d \in DocCallers \ {c} : DocPending(d, "update_xml")}

RunUpdateXml(c) ==
    /\ DocPending(c, "update_xml")
    /\ LET r == update_xml(state_manager, doc_call[c].arg)
       IN /\ state_manager' = r.sm
          /\ doc_call' = [doc_call EXCEPT ![c].status = "done",
                                          ![c].success = r.resp.success,
                                          ![c].xml = r.resp.xml,
                                          ![c].overlap = Overlapping(c)]
    /\ UNCHANGED <<clients, call, holders, server>>

RunInitializeDiagram(c) ==
    /\ DocPending(c, "initialize_diagram")
    /\ LET r == initialize_diagram(state_manager, doc_call[c].arg)
       IN /\ state_manager' = r.sm
          /\ doc_call' = [doc_call EXCEPT ![c].status = "done",
                                          ![c].success = ~r.raised,
                                          ![c].xml = r.sm.xml]
    /\ UNCHANGED <<clients, call, holders, server>>

RunResetDiagram(c) ==
    /\ DocPending(c, "reset_diagram")
    /\ should_reset(state_manager)
    /\ state_manager.session_id < MaxSessions
    /\ state_manager' = reset_diagram(state_manager)
    /\ doc_call' = [doc_call EXCEPT ![c].status = "done", ![c].success = TRUE]
    /\ UNCHANGED <<clients, call, holders, server>>

\* The caller takes the result and is free to call again.
DocReturn(c) ==
    /\ doc_call[c].status = "done"
    /\ doc_call' = [doc_call EXCEPT ![c] = IdleDocCall]
    /\ UNCHANGED <<clients, state_manager, call, holders, server>>

DocNext ==
    \E c \in DocCallers :
        \/ DocIssue(c)
        \/ RunUpdateXml(c)
        \/ RunInitializeDiagram(c)
        \/ RunResetDiagram(c)
        \/ DocReturn(c)

DocSpec == Init /\ [][DocNext]_vars

\* ------------------------------------------------------------- properties
\* The users that own a lock.
LockOwners ==
    {state_manager.locked_elements[e] : e \in DOMAIN state_manager.locked_elements}

\* C1: in every reachable state every owner user id in the lock map is a key
\* of the users map, also when remove_user and lock_element for one user are
\* both in flight.
C1_LockOwnersRegistered == LockOwners \subseteq DOMAIN state_manager.users

\* Two lock_element calls for two users on one element, the second issued
\* while the first was pending and the element unlocked, both now returned.
LockRace(c, d) ==
    /\ c # d
    /\ call[c].status = "done" /\ call[d].status = "done"
    /\ call[c].peer = d \/ call[d].peer = c

\* C2: of two lock_element calls issued concurrently on an unlocked element
\* exactly one succeeds, the other fails with "Element is already locked",
\* and the lock map then names the caller that succeeded as the one owner.
C2_ConcurrentLockOneWinner ==
    \A c, d \in Callers :
        (LockRace(c, d) /\ call[c].success) =>
            /\ ~call[d].success
            /\ call[d].error = "Element is already locked"
            /\ call[c].error = NoString
            /\ OwnedBy(state_manager, call[c].element_id) = call[c].user_id

C2_OneOfTwoSucceeds ==
    \A c, d \in Callers : LockRace(c, d) => (call[c].success \/ call[d].success)

C3_SingleOwner ==
    \A e \in Elements :
        /\ Cardinality(holders[e]) <= 1
        /\ holders[e] = IF IsLocked(state_manager, e)
                        THEN {state_manager.locked_elements[e]}
                        ELSE {}

C3_Witness ==
    \E c, d \in Callers :
        /\ c # d
        /\ call[c].status = "done" /\ call[c].op = "lock_element"
        /\ call[c].success
        /\ call[d].status = "done" /\ call[d].op = "lock_element"
        /\ call[d].element_id = call[c].element_id
        /\ ~call[d].success
        /\ holders[call[c].element_id] = {call[c].user_id}

\* ------------------------------------------------------------- disconnects
Range(f) == {f[x] : x \in DOMAIN f}

\* The user ids drawn so far whose connection has disconnected and been
\* flushed: no task that is still before its cleanup holds them.
Disconnected ==
    {uuid4(n) : n \in 1..(next_uid - 1)}
        \ {task_uid[w] : w \in {v \in WebSockets : pc[v] \in {"init_sent", "loop"}}}

\* The init messages the last step handed to a new connection.
InitSnapshots == {d.msg : d \in {x \in outbox : x.msg.type = "init"}}

C4_DisconnectedUserGone ==
    \A u \in Disconnected :
        /\ u \notin DOMAIN state_manager.users
        /\ u \notin LockOwners
        /\ \A m \in InitSnapshots :
               u \notin DOMAIN m.users /\ u \notin Range(m.locked_elements)

\* The step in which the task of w leaves its loop and flushes its user.
Disconnects(w) == pc[w] = "loop" /\ pc'[w] = "flush_users_sent"

C4_HeldElementsReleased ==
    \A w \in WebSockets :
        Disconnects(w) =>
            \A e \in Elements :
                OwnedBy(state_manager, e) = task_uid[w] =>
                    e \notin DOMAIN state_manager'.locked_elements

FairSpec ==
    Spec /\ \A w \in WebSockets : WF_vars(FlushLocks(w)) /\ WF_vars(Exit(w))

InCleanup(w) == pc[w] \in {"flush_users_sent", "flush_locks_sent"}

\* The other connections' tasks stand where they stood.
OthersUndisturbed(w) ==
    \A v \in WebSockets \ {w} : pc'[v] = pc[v] /\ task_uid'[v] = task_uid[v]

\* The last step broadcast `message` to the connections in `to`.
Broadcast(message, to) ==
    /\ {d.to : d \in outbox'} = to
    /\ \A d \in outbox' : d.msg = message

\* Leaving the loop evicts the connection, releases the locks of its user,
\* removes the user and broadcasts the users that remain.
C5_TerminationFlushes ==
    \A w \in WebSockets :
        Disconnects(w) =>
            /\ w \notin connection_manager'.active_connections
            /\ w \notin DOMAIN connection_manager'.ws_uid_map
            /\ task_uid[w] \notin DOMAIN state_manager'.users
            /\ task_uid[w] \notin Range(state_manager'.locked_elements)
            /\ Broadcast(UsersUpdate(state_manager'.users),
                         connection_manager.active_connections \ {w})
            /\ OthersUndisturbed(w)

\* The next step of the cleanup broadcasts the locks that remain.
C5_LocksBroadcast ==
    \A w \in WebSockets :
        (pc[w] = "flush_users_sent" /\ pc'[w] # pc[w]) =>
            /\ pc'[w] = "flush_locks_sent"
            /\ Broadcast(LockedElementsUpdate(state_manager.locked_elements),
                         connection_manager.active_connections)
            /\ OthersUndisturbed(w)

\* The task exits only from the end of the cleanup, with the diagram reset
\* if no user is left.
C5_ExitAfterCleanup ==
    \A w \in WebSockets :
        (InCleanup(w) /\ pc'[w] = "idle") =>
            /\ pc[w] = "flush_locks_sent"
            /\ w \notin connection_manager.active_connections
            /\ task_uid[w] \notin DOMAIN state_manager.users
            /\ task_uid[w] \notin LockOwners
            /\ DOMAIN state_manager.users = {} =>
                   state_manager' = reset_diagram(state_manager)
            /\ OthersUndisturbed(w)

FailedBroadcasts ==
    {d \in outbox : ~d.ok /\ d.msg.type \notin {"init", "error"}}

\* C6: when the delivery of a broadcast to a connection fails, the connection
\* is evicted from the registry and its cleanup has run: its user is no key
\* of the users map and owns no lock.
C6_FailedDeliveryCleansUp ==
    \A d \in FailedBroadcasts :
        /\ d.to \notin connection_manager.active_connections
        /\ task_uid[d.to] \notin DOMAIN state_manager.users
        /\ task_uid[d.to] \notin LockOwners

\* ------------------------------------------------------------- templates
\* The init messages handed to a connection that joins other users.
JoiningSnapshots == {m \in InitSnapshots : Cardinality(DOMAIN m.users) > 1}

\* C7: the init message of every connection that joins a session carries
\* is_initialized = true and the template the session was initialized with.
C7_InitCarriesSessionTemplate ==
    \A m \in JoiningSnapshots :
        /\ "is_initialized" \in DOMAIN m
        /\ "template" \in DOMAIN m
        /\ m.is_initialized
        /\ m.template = state_manager.template

\* The step in which the connect handler of w, its accept returned, adds the
\* user and hands over the init message.
Connects(w) == pc[w] = "accepting" /\ pc'[w] = "init_sent"

\* C8: when the connect handlers of two connections run at once, the one
\* that finds the diagram initialized by the other leaves its template alone,
\* is sent no error, and both are handed an init message that carries the
\* template of the one that initialized.
C8_RacingConnectsShareTemplate ==
    \A w, v \in WebSockets :
        (w # v /\ Connects(w) /\ pc[v] \in {"accepting", "init_sent"}) =>
            /\ state_manager.is_initialized =>
                   state_manager'.template = state_manager.template
            /\ \A d \in outbox' :
                   /\ d.to = w /\ d.msg.type = "init"
                   /\ "template" \in DOMAIN d.msg
                   /\ d.msg.template = state_manager'.template

C8_Counterexample == [][C8_RacingConnectsShareTemplate]_vars

\* ------------------------------------------------------------- resets
\* The step in which the task of w ends its cleanup and exits.
Exits(w) == pc[w] = "flush_locks_sent" /\ pc'[w] = "idle"

\* The step applies a reset to the diagram.
Resets ==
    \/ state_manager'.session_id # state_manager.session_id
    \/ state_manager.is_initialized /\ ~state_manager'.is_initialized

\* w is the last connection: no other task holds a user it has yet to flush.
LastConnection(w) ==
    \A v \in WebSockets \ {w} : pc[v] \notin {"init_sent", "loop"}

C9_ResetOnlyWhenEmpty ==
    Resets =>
        /\ DOMAIN state_manager.users = {}
        /\ \E w \in WebSockets : Exits(w)

C9_ExitResetsIffEmpty ==
    \A w \in WebSockets :
        Exits(w) =>
            /\ DOMAIN state_manager.users # {} =>
                   /\ ~Resets
                   /\ state_manager'.is_initialized = state_manager.is_initialized
                   /\ state_manager'.template = state_manager.template
            /\ DOMAIN state_manager.users = {} =>
                   /\ Resets
                   /\ ~state_manager'.is_initialized
            /\ LastConnection(w) => Resets

C9_DisconnectKeepsDiagram ==
    \A w \in WebSockets :
        Disconnects(w) =>
            /\ state_manager'.is_initialized = state_manager.is_initialized
            /\ state_manager'.template = state_manager.template
            /\ state_manager'.session_id = state_manager.session_id

C10_ResetLeavesFreshDiagram ==
    Resets =>
        /\ state_manager'.users = EmptyUsers
        /\ state_manager'.locked_elements = EmptyLocks
        /\ state_manager'.xml = load_initial_xml
        /\ state_manager'.template = NoString
        /\ ~state_manager'.is_initialized
        /\ state_manager'.session_id # state_manager.session_id
        /\ state_manager' = reset_diagram(state_manager)

C10_FirstConnectionInitializes ==
    \A w \in WebSockets :
        (Connects(w) /\ ~state_manager.is_initialized) =>
            /\ state_manager'.is_initialized
            /\ state_manager'.template = get_template_or_default(task_template[w])
            /\ state_manager'.xml = load_template(state_manager'.template)
            /\ state_manager'.session_id = state_manager.session_id

DocRuns(c, op) == DocPending(c, op) /\ doc_call'[c].status = "done"

\* The template a selector names: itself if it is a known template, the
\* default otherwise.
NamedTemplate(selector) ==
    IF selector \in TEMPLATES THEN selector ELSE DEFAULT_TEMPLATE

\* C11 (first part): initialize on an uninitialized store succeeds, records the
\* template the selector names, sets xml to that template's content and sets
\* the initialized flag.
C11_InitializeSetsDiagram ==
    \A c \in DocCallers :
        DocRuns(c, "initialize_diagram") /\ ~state_manager.is_initialized =>
            /\ doc_call'[c].success
            /\ state_manager'.is_initialized
            /\ state_manager'.template = NamedTemplate(doc_call[c].arg)
            /\ state_manager'.xml = load_template(state_manager'.template)

\* C11 (second part): initialize on an initialized store fails and leaves
\* xml, template and the initialized flag as they were.
C11_InitializeTwiceFails ==
    \A c \in DocCallers :
        DocRuns(c, "initialize_diagram") /\ state_manager.is_initialized =>
            /\ ~doc_call'[c].success
            /\ state_manager'.xml = state_manager.xml
            /\ state_manager'.template = state_manager.template
            /\ state_manager'.is_initialized

\* C11 (third part): within a session the flag only goes from false to true,
\* and only by an initialize that succeeds; it is false again only in the
\* next session.
C11_FlagOncePerSession ==
    /\ state_manager'.session_id = state_manager.session_id
            /\ state_manager.is_initialized
        => state_manager'.is_initialized
    /\ ~state_manager.is_initialized /\ state_manager'.is_initialized
        => /\ state_manager'.session_id = state_manager.session_id
           /\ \E c \in DocCallers :
                 DocRuns(c, "initialize_diagram") /\ doc_call'[c].success
    /\ state_manager.is_initialized /\ ~state_manager'.is_initialized
        => state_manager'.session_id = state_manager.session_id + 1

\* C11: the initialized flag goes from false to true once per session:
\* initialize on an uninitialized store loads the named template (or the
\* default) and sets the flag, initialize on an initialized store fails and
\* changes nothing.
C11_Theorem ==
    [][/\ C11_InitializeSetsDiagram
       /\ C11_InitializeTwiceFails
       /\ C11_FlagOncePerSession]_vars

\* A second session is initialized, with the default template standing in
\* for a selector that names no template, after an initialize that failed on
\* the initialized store of some session.
C11_Witness ==
    /\ state_manager.session_id = 2
    /\ state_manager.is_initialized
    /\ state_manager.template = DEFAULT_TEMPLATE
    /\ \E c, d \in DocCallers :
         /\ doc_call[c].status = "done" /\ doc_call[c].op = "initialize_diagram"
         /\ doc_call[c].arg = "invalid-template" /\ doc_call[c].success
         /\ doc_call[d].status = "done" /\ doc_call[d].op = "initialize_diagram"
         /\ ~doc_call[d].success

\* ------------------------------------------------------------- C12
DocDone(c, op) == doc_call[c].status = "done" /\ doc_call[c].op = op

\* Every caller has an update_xml done, the payloads are valid and differ from
\* caller to caller, and the first of the calls ran while the others were
\* issued and not run.
ConcurrentUpdates ==
    /\ \A c \in DocCallers :
         DocDone(c, "update_xml") /\ doc_call[c].arg \in ValidDocs
    /\ \A c, d \in DocCallers : c # d => doc_call[c].arg # doc_call[d].arg
    /\ \E c \in DocCallers : doc_call[c].overlap = DocCallers \ {c}

Handles(w, type) == inbox'.from = w /\ inbox'.message.type = type

\* C13: a valid xml_update from a connection replaces the stored document by
\* the submitted text and sends one xml_update whose xml is exactly that text
\* to every other registered connection, and nothing to the sender.
C13_ValidXmlUpdateRelayed ==
    [][\A w \in WebSockets :
         Handles(w, "xml_update") /\ is_valid_xml(inbox'.message.xml) =>
            /\ state_manager'.xml = inbox'.message.xml
            /\ {d.to : d \in outbox'} = connection_manager.active_connections \ {w}
            /\ \A d, e \in outbox' : d.to = e.to => d = e
            /\ \A d \in outbox' :
                 /\ d.msg.type = "xml_update"
                 /\ json_dumps_response(d.msg.xml)
                        = json_dumps_str(inbox'.message.xml)]_vars

\* ------------------------------------------------------------- C14
\* C14: an xml_update whose document is not well formed leaves the stored
\* document as it was and sends one error message to the sender and no
\* message to anyone else.
C14_InvalidXmlUpdateRejected ==
    [][\A w \in WebSockets :
         Handles(w, "xml_update") /\ ~is_valid_xml(inbox'.message.xml) =>
            /\ state_manager'.xml = state_manager.xml
            /\ \E d \in outbox' :
                 /\ outbox' = {d}
                 /\ d.to = w
                 /\ d.msg.type = "error"]_vars

\* ------------------------------------------------------------- C15
\* The elements a selection asks for.
Requested(element_ids) == {element_ids[i] : i \in DOMAIN element_ids}

\* The elements some user other than user_id owns.
OwnedByAnother(sm, user_id) ==
    {e \in DOMAIN sm.locked_elements :
        sm.locked_elements[e] \notin {NoUser, user_id}}

\* C15: after an element_select of user U the elements U owns are exactly the
\* requested elements no other user owned: what U held and did not request
\* again is unlocked, and the locks of the others stand.
C15_SelectReplacesSelection ==
    [][\A w \in WebSockets :
         Handles(w, "element_select") =>
            /\ HeldBy(state_manager', task_uid[w])
                   = Requested(inbox'.message.element_ids)
                         \ OwnedByAnother(state_manager, task_uid[w])
            /\ \A e \in HeldBy(state_manager, task_uid[w])
                         \ Requested(inbox'.message.element_ids) :
                 ~IsLocked(state_manager', e)
            /\ \A e \in OwnedByAnother(state_manager, task_uid[w]) :
                 OwnedBy(state_manager', e) = OwnedBy(state_manager, e)]_vars

\* A user that held e1 has selected e2 alone: it owns e2 and e1 is unlocked.
C15_Witness ==
    /\ inbox.message.type = "element_select"
    /\ inbox.message.element_ids = <<"e2">>
    /\ "e1" \in inbox.held
    /\ ~IsLocked(state_manager, "e1")
    /\ OwnedBy(state_manager, "e2") = task_uid[inbox.from]

\* ------------------------------------------------------------- C16
\* C16: element_select is best-effort. A requested element another user owns
\* keeps its owner and brings the sender no error; the requested elements
\* after it are acquired if free; one locked_elements_update with the lock
\* map the handler leaves goes to every registered connection, the sender
\* included, whether or not an attempt failed.
C16_SelectBestEffort ==
    [][\A w \in WebSockets :
         Handles(w, "element_select") =>
            LET ids == inbox'.message.element_ids
                others == OwnedByAnother(state_manager, task_uid[w])
            IN /\ \A i \in DOMAIN ids :
                    IF ids[i] \in others
                    THEN OwnedBy(state_manager', ids[i])
                             = OwnedBy(state_manager, ids[i])
                    ELSE OwnedBy(state_manager', ids[i]) = task_uid[w]
               /\ {d.to : d \in outbox'} = connection_manager.active_connections
               /\ \A d, e \in outbox' : d.to = e.to => d = e
               /\ \A d \in outbox' :
                    d.msg = LockedElementsUpdate(state_manager'.locked_elements)]_vars

\* A selection of e1 and e2 met e1 owned by another user: the sender owns e2,
\* the other user still owns e1, and both connections, the sender's included,
\* are sent the lock map.
C16_Witness ==
    /\ inbox.message.type = "element_select"
    /\ inbox.message.element_ids = <<"e1", "e2">>
    /\ OwnedBy(state_manager, "e1") \notin {NoUser, task_uid[inbox.from]}
    /\ OwnedBy(state_manager, "e2") = task_uid[inbox.from]
    /\ {d.to : d \in outbox} = WebSockets
    /\ \A d \in outbox : d.msg.type = "locked_elements_update"

\* ------------------------------------------------------------- C17
\* The value a message carries is the given map: the same keys, the same
\* value under each.
CarriesMap(value, map) ==
    /\ DOMAIN value = DOMAIN map
    /\ \A k \in DOMAIN map : value[k] = map[k]

\* One message of the given type goes to every registered connection.
SentToAll(type) ==
    /\ {d.to : d \in outbox'} = connection_manager.active_connections
    /\ \A d, e \in outbox' : d.to = e.to => d = e
    /\ \A d \in outbox' : d.msg.type = type

\* C17: element_deselect of an element by its owner removes that entry alone
\* and broadcasts one locked_elements_update with the resulting map to every
\* connection; element_deselect of an element that is unlocked or owned by
\* another user leaves the map as it was and sends nothing.
C17_DeselectByOwnerOnly ==
    [][\A w \in WebSockets :
         Handles(w, "element_deselect") =>
            IF OwnedBy(state_manager, inbox'.message.element_id) = task_uid[w]
            THEN /\ state_manager'.locked_elements
                        = Restrict(state_manager.locked_elements,
                                   DOMAIN state_manager.locked_elements
                                       \ {inbox'.message.element_id})
                 /\ SentToAll("locked_elements_update")
                 /\ \A d \in outbox' :
                      CarriesMap(d.msg.locked_elements,
                                 state_manager'.locked_elements)
            ELSE /\ state_manager'.locked_elements = state_manager.locked_elements
                 /\ outbox' = {}]_vars

\* ------------------------------------------------------------- C18
\* C18: user_name_update from a registered user replaces that user's name
\* alone and broadcasts one users_update with the updated users map to every
\* connection; for a user id that is not registered the users stay as they
\* were and the sender alone is sent one error.
C18_RenameRegisteredOnly ==
    [][\A w \in WebSockets :
         Handles(w, "user_name_update") =>
            IF task_uid[w] \in DOMAIN state_manager.users
            THEN /\ state_manager'.users
                        = [state_manager.users
                               EXCEPT ![task_uid[w]] = inbox'.message.name]
                 /\ SentToAll("users_update")
                 /\ \A d \in outbox' :
                      CarriesMap(d.msg.users, state_manager'.users)
            ELSE /\ state_manager'.users = state_manager.users
                 /\ \E d \in outbox' :
                      outbox' = {d} /\ d.to = w /\ d.msg.type = "error"]_vars

\* ------------------------------------------------------------- C19
\* The frame w's task handles in this step is a bad request: a frame the
\* router yields no message for, or a message whose store operation fails.
BadRequest(w) ==
    \/ Handles(w, "raw")
    \/ Handles(w, "xml_update") /\ ~is_valid_xml(inbox'.message.xml)
    \/ Handles(w, "user_name_update")
           /\ task_uid[w] \notin DOMAIN state_manager.users
    \/ Handles(w, "element_deselect")
           /\ OwnedBy(state_manager, inbox'.message.element_id) # task_uid[w]

\* C19: the sender of a bad request is sent an error message, whether the
\* frame is malformed, of an unknown type, fails its schema, or fails in the
\* store as an xml_update, a user_name_update or an element_deselect.
C19_BadRequestGetsFeedback ==
    [][\A w \in WebSockets :
         BadRequest(w) =>
            \E d \in outbox' : d.to = w /\ d.msg.type = "error"]_vars

\* ------------------------------------------------------------- C20
\* The frames that are no well-formed structured payload: text that is not
\* JSON, and JSON that is no object.
MalformedFrames ==
    {data \in RejectedFrames \cup NonObjectFrames :
        ~is_valid_json(data) \/ data \in NonObjectFrames}

\* C20: on a frame that is no well-formed structured payload the sender is
\* sent exactly one error, nobody else is sent anything, the store and the
\* registry are untouched, and the connection's task stays in its loop.
C20_MalformedFrameReported ==
    [][\A w \in WebSockets :
         Handles(w, "raw") /\ inbox'.message.data \in MalformedFrames =>
            /\ \E d \in outbox' :
                 outbox' = {d} /\ d.to = w /\ d.msg.type = "error"
            /\ state_manager' = state_manager
            /\ connection_manager' = connection_manager
            /\ pc[w] = "loop" /\ pc'[w] = "loop"]_vars

\* ------------------------------------------------------------- C21
\* The object frames whose type is missing or unknown, or whose fields break
\* the constraints of their message model.
SchemaViolations ==
    {data \in RejectedFrames : is_valid_json(data) /\ data \notin NonObjectFrames}

\* C21: a well-formed frame with a missing or unknown type, or with fields
\* that break its variant's constraints, brings the sender exactly one error,
\* runs no store operation, reaches no other connection, and leaves the
\* connection registered with its task in the loop.
C21_SchemaViolationReported ==
    [][\A w \in WebSockets :
         Handles(w, "raw") /\ inbox'.message.data \in SchemaViolations =>
            /\ \E d \in outbox' :
                 outbox' = {d} /\ d.to = w /\ d.msg.type = "error"
            /\ state_manager' = state_manager
            /\ connection_manager' = connection_manager
            /\ pc[w] = "loop" /\ pc'[w] = "loop"]_vars

\* With two connections registered, one has sent a display name of 101
\* characters and is the only one that was sent a message, an error.
C21_Witness ==
    /\ inbox.message.type = "raw"
    /\ inbox.message.data
          = "{\"type\": \"user_name_update\", \"name\": <101 characters>}"
    /\ connection_manager.active_connections = WebSockets
    /\ pc[inbox.from] = "loop"
    /\ \E d \in outbox :
         outbox = {d} /\ d.to = inbox.from /\ d.msg.type = "error"

\* ------------------------------------------------------------- C22
\* The steps in which the task of w calls broadcast.
Announces(w) == pc[w] = "init_sent" /\ pc'[w] = "loop"
FlushesLocks(w) == pc[w] = "flush_users_sent" /\ pc'[w] = "flush_locks_sent"
Broadcasts(w) ==
    \/ Announces(w)
    \/ Disconnects(w)
    \/ FlushesLocks(w)
    \/ \E type \in MessageTypes : Handles(w, type)

\* The connection that broadcast is told to leave out, and the connections
\* registered when it is called.
Excluded(w) ==
    IF Announces(w) \/ Handles(w, "xml_update") THEN w ELSE NoSocket
RegisteredAtCall(w) ==
    IF Disconnects(w)
    THEN connection_manager.active_connections \ {w}
    ELSE connection_manager.active_connections

AcceptFails(w) == pc[w] = "accepting" /\ pc'[w] = "idle"

\* C23: when accepting a connection fails, connect reports the failure, the
\* connection is not added to the registry, the connect handler runs no store
\* operation and no message is sent.
C23_FailedAcceptChangesNothing ==
    [][\A w \in WebSockets :
         AcceptFails(w) =>
            /\ ~connect_failed(connection_manager).resp.success
            /\ w \notin connection_manager'.active_connections
            /\ connection_manager' = connection_manager
            /\ state_manager' = state_manager
            /\ outbox' = {}]_vars

\* The accept of a connection has failed while another connection is
\* registered in an initialized session: the connection is not registered and
\* nothing was sent.
C23_Witness ==
    /\ inbox.message.type = "accept_error"
    /\ inbox.from \notin connection_manager.active_connections
    /\ connection_manager.active_connections # {}
    /\ state_manager.is_initialized
    /\ outbox = {}

\* ------------------------------------------------------------- C24
\* The call of caller c that this step runs.
Runs(c, op) == Pending(c, op) /\ call'[c].status = "done"

C25_InitMessageComplete ==
    \A w \in WebSockets :
        Connects(w) =>
            \E d \in outbox' :
                /\ outbox' = {d}
                /\ d.to = w
                /\ d.msg.type = "init"
                /\ d.msg.user_id \in DOMAIN d.msg.users
                /\ d.msg.user_name = d.msg.users[d.msg.user_id]
                /\ DOMAIN state_manager.users \subseteq DOMAIN d.msg.users
                /\ d.msg.xml = state_manager'.xml
                /\ d.msg.locked_elements = state_manager'.locked_elements
                /\ "template" \in DOMAIN d.msg
                /\ d.msg.template = state_manager'.template
                /\ "is_initialized" \in DOMAIN d.msg
                /\ d.msg.is_initialized = state_manager'.is_initialized

\* Every other registered connection is sent a users_update that holds the
\* new user.
C25_OthersToldOfNewUser ==
    \A w \in WebSockets :
        Announces(w) =>
            /\ {d.to : d \in outbox'} = connection_manager.active_connections \ {w}
            /\ \A d \in outbox' :
                 /\ d.msg.type = "users_update"
                 /\ task_uid[w] \in DOMAIN d.msg.users

\* C25: on every successful connect exactly one init message is sent, to the
\* new connection only, with its user, the users already connected, the
\* document, the lock map, the template and the initialized flag, and every
\* other registered connection receives a users_update with the new user.
C25_ConnectAnnounced ==
    [][C25_InitMessageComplete /\ C25_OthersToldOfNewUser]_vars

\* ------------------------------------------------------------- C26
InSection(c) == call[c].status \in {"entered", "checked"}

\* At most one operation is inside the exclusive section.
C26_MutualExclusion == Cardinality({c \in Callers : InSection(c)}) <= 1

\* Each operation's guard and mutation form one step: what it returns and
\* the store it leaves are those of the whole operation run on the store as
\* it is when the mutation is made, and the store changes in no other step.
C26_Linearized ==
    /\ \A c \in Callers :
         call[c].status = "checked" /\ call'[c].status = "done" =>
            /\ state_manager' = Whole(state_manager, call[c]).sm
            /\ call'[c].success = Whole(state_manager, call[c]).resp.success
            /\ call'[c].error = Whole(state_manager, call[c]).resp.error
    /\ state_manager' # state_manager =>
         \E c \in Callers :
             call[c].status = "checked" /\ call'[c].status = "done"

\* C26: at most one store operation is inside the exclusive section, and
\* every concurrent execution gives each operation the result, and the store
\* the state, of running the operations one after the other in the order in
\* which they leave the section.
C26_Theorem == []C26_MutualExclusion /\ [][C26_Linearized]_vars

\* One caller is past the guard of a lock_element while the other waits
\* with a lock_element of another user on the same element.
C26_Witness ==
    \E c, d \in Callers :
        /\ call[c].status = "checked" /\ call[c].op = "lock_element"
        /\ call[c].success
        /\ call[d].status = "pending" /\ call[d].op = "lock_element"
        /\ call[d].element_id = call[c].element_id
        /\ call[d].user_id # call[c].user_id

Without(users, id) == Restrict(users, DOMAIN users \ {id})

\* What every user operation leaves alone: the document, the locks and the
\* entries of the other users.
OnlyEntryChanged(id) ==
    /\ state_manager'.xml = state_manager.xml
    /\ state_manager'.locked_elements = state_manager.locked_elements
    /\ Without(state_manager'.users, id) = Without(state_manager.users, id)

C28_AddUser ==
    \A c \in Callers :
        Runs(c, "add_user") =>
            LET r == add_user(state_manager, call[c].user_id, call[c].name)
            IN IF call[c].user_id \in DOMAIN state_manager.users
               THEN /\ ~call'[c].success
                    /\ call'[c].error = "User with this ID already exists"
                    /\ state_manager' = state_manager
               ELSE /\ call'[c].success
                    /\ call[c].user_id \in DOMAIN state_manager'.users
                    /\ state_manager'.users[call[c].user_id] = call[c].name
                    /\ r.resp.users = state_manager'.users
                    /\ OnlyEntryChanged(call[c].user_id)

C28_RemoveUser ==
    \A c \in Callers :
        Runs(c, "remove_user") =>
            LET r == remove_user(state_manager, call[c].user_id)
            IN IF call[c].user_id \notin DOMAIN state_manager.users
               THEN /\ ~call'[c].success
                    /\ call'[c].error = "User with this ID does not exist"
                    /\ state_manager' = state_manager
               ELSE /\ call'[c].success
                    /\ call[c].user_id \notin DOMAIN state_manager'.users
                    /\ r.resp.users = state_manager'.users
                    /\ OnlyEntryChanged(call[c].user_id)

C28_UpdateUserName ==
    \A c \in Callers :
        Runs(c, "update_user_name") =>
            LET r == update_user_name(state_manager, call[c].user_id,
                                      call[c].name)
            IN IF call[c].user_id \notin DOMAIN state_manager.users
               THEN /\ ~call'[c].success
                    /\ call'[c].error = "User with this ID does not exist"
                    /\ state_manager' = state_manager
               ELSE /\ call'[c].success
                    /\ DOMAIN state_manager'.users = DOMAIN state_manager.users
                    /\ state_manager'.users[call[c].user_id] = call[c].name
                    /\ r.resp.users = state_manager'.users
                    /\ OnlyEntryChanged(call[c].user_id)

C29_LockNotIdempotent ==
    \A c \in Callers :
        Runs(c, "lock_element") =>
            IF IsLocked(state_manager, call[c].element_id)
            THEN /\ ~call'[c].success
                 /\ call'[c].error = "Element is already locked"
                 /\ state_manager' = state_manager
            ELSE call'[c].success

C29_UnlockByOwnerOnly ==
    \A c \in Callers :
        Runs(c, "unlock_element") =>
            IF OwnedBy(state_manager, call[c].element_id) # call[c].user_id
            THEN /\ ~call'[c].success
                 /\ call'[c].error = "Element is not locked by this user"
                 /\ state_manager' = state_manager
            ELSE call'[c].success

C29_LockThenUnlockRestores ==
    \A user_id \in CallerUsers, element_id \in Elements :
        ~IsLocked(state_manager, element_id) =>
            LET locked_by == lock_element(state_manager, user_id, element_id)
                unlocked == unlock_element(locked_by.sm, user_id, element_id)
            IN /\ locked_by.resp.success
               /\ locked_by.sm.locked_elements # state_manager.locked_elements
               /\ unlocked.resp.success
               /\ unlocked.sm.locked_elements = state_manager.locked_elements

C30_TemplateResolution ==
    \A template \in RequestedTemplates \cup TEMPLATES :
        get_template_or_default(template) =
            IF template \in TEMPLATES THEN template ELSE "blank"

\* The connect handler of a connection that finds the diagram uninitialized
\* initializes it with the resolved template.
C30_FreshSessionInitialized ==
    \A w \in WebSockets :
        (Connects(w) /\ ~state_manager.is_initialized) =>
            /\ state_manager'.is_initialized
            /\ task_template[w] \notin TEMPLATES =>
                   state_manager'.template = "blank"
            /\ task_template[w] \in TEMPLATES =>
                   state_manager'.template = task_template[w]

\* The init message that connection is handed reports the resolved template.
C30_InitReportsTemplate ==
    \A w \in WebSockets :
        (Connects(w) /\ ~state_manager.is_initialized) =>
            \A d \in outbox' :
                (d.to = w /\ d.msg.type = "init") =>
                    /\ "template" \in DOMAIN d.msg
                    /\ d.msg.template = get_template_or_default(task_template[w])

\* C30: a connection that opens a fresh session with a missing or unknown
\* template selector initializes the diagram with "blank";
\* get_template_or_default returns one of the four template names as it is
\* and "blank" for anything else, None and "" included; the init message
\* reports the resolved template.
C30_DefaultTemplate ==
    /\ []C30_TemplateResolution
    /\ [][C30_FreshSessionInitialized /\ C30_InitReportsTemplate]_vars

\* ------------------------------------------------------------- C31
\* The place of a user id in the order the ids were issued.
IssueNumber(user_id) == CHOOSE n \in 1..(next_uid - 1) : uuid4(n) = user_id

\* The users a snapshot taken when w connected can hold: no user that
\* connected after w.
InSnapshotOf(w, users) ==
    \A u \in DOMAIN users : IssueNumber(u) <= IssueNumber(task_uid[w])

\* C31: a snapshot is a copy of the moment it was taken: the users_update
\* that the connect handler builds from the snapshot of its init message
\* carries the users of that moment, whatever the store went through since.
C31_SnapshotIsCopy ==
    [][\A w \in WebSockets :
          Announces(w) =>
              \A d \in outbox' :
                  d.msg.type = "users_update" => InSnapshotOf(w, d.msg.users)]_vars

\* ------------------------------------------------------------- C32
\* The cleanup of a registered user: its locks released, the user removed,
\* then the users and the lock map as they are now broadcast to all the
\* connections registered when each broadcast is made.
C32_FlushReleasesRemovesBroadcasts ==
    \A c \in Callers :
        (Runs(c, "flush_user_data")
            /\ call[c].user_id \in DOMAIN state_manager.users) =>
            /\ HeldBy(state_manager', call[c].user_id) = {}
            /\ call[c].user_id \notin DOMAIN state_manager'.users
            /\ \A w \in connection_manager.active_connections :
                   \E d \in outbox' :
                       /\ d.to = w /\ d.msg.type = "users_update"
                       /\ d.msg.users = state_manager'.users
            /\ \A w \in connection_manager'.active_connections :
                   \E d \in outbox' :
                       /\ d.to = w /\ d.msg.type = "locked_elements_update"
                       /\ d.msg.locked_elements = state_manager'.locked_elements

\* The cleanup of a user whose locks cannot be released: nothing is removed
\* and nothing is broadcast.
C32_FailedReleaseBroadcastsNothing ==
    \A c \in Callers :
        (Runs(c, "flush_user_data")
            /\ ~clear_locks_by_user(state_manager, call[c].user_id).resp.success) =>
            /\ state_manager' = state_manager
            /\ outbox' = {}

\* C32: handle_flush_user_data releases the user's locks, then removes the
\* user, then broadcasts a users_update and a locked_elements_update to all
\* connections; when the release fails the user is not removed, nothing is
\* broadcast and no exception leaves the handler.
C32_FlushOrder ==
    [][C32_FlushReleasesRemovesBroadcasts
          /\ C32_FailedReleaseBroadcastsNothing]_vars

\* ------------------------------------------------------------- C33
\* Nothing is on the wire: every frame sent was handled, every message read.
Quiescent ==
    \A w \in WebSockets : upstream[w] = << >> /\ downstream[w] = << >>

\* C33: once the clients have stopped sending and every message in flight
\* is delivered, the document, the users and the locks each connected client
\* keeps are those of the store, also after two clients sent xml_update at
\* the same time.
C33_ConvergesAtQuiescence ==
    Quiescent =>
        \A w \in connection_manager.active_connections :
            /\ client_copy[w].known
            /\ client_copy[w].xml = json_dumps_str(state_manager.xml)
            /\ client_copy[w].users = state_manager.users
            /\ client_copy[w].locked_elements = state_manager.locked_elements

\* ------------------------------------------------------------- C34
\* No connect handler and no disconnect cleanup is under way.
NoHandlerInProgress == \A w \in WebSockets : pc[w] \in {"idle", "loop"}

\* Every registered connection has one user id, and no two have the same.
C34_OneUserPerConnection ==
    /\ DOMAIN connection_manager.ws_uid_map = connection_manager.active_connections
    /\ \A w, v \in connection_manager.active_connections :
           connection_manager.ws_uid_map[w] = connection_manager.ws_uid_map[v]
               => w = v

\* The user ids of the registry are the keys of the users map.
C34_SameUsers ==
    Range(connection_manager.ws_uid_map) = DOMAIN state_manager.users

\* C34: whenever no connect or disconnect handler is under way, the user ids
\* the registry maps are the keys of the users map, every registered
\* connection has one user id and distinct connections have distinct ones,
\* also after a failed delivery has evicted a connection.
C34_RegistryAgreesWithStore ==
    NoHandlerInProgress => C34_OneUserPerConnection /\ C34_SameUsers

\* ------------------------------------------------------------- C35
\* This step is one of the task of w: it handles a frame the task received,
\* or moves the task on in its connect handler or its cleanup.
ActsFor(w) == inbox'.from = w \/ pc'[w] # pc[w]

\* The locks of user_id stand: each element it owned it still owns.
LocksStand(user_id) ==
    \A e \in HeldBy(state_manager, user_id) :
        OwnedBy(state_manager', e) = user_id

\* C35: no request made for a user B removes a lock held by another user A
\* or gives it another owner: a lock of A goes only by a request of A (its
\* deselect, its select, its disconnect) or by a reset of the diagram.
C35_OthersLocksStand ==
    [][\A w \in WebSockets :
          ActsFor(w) =>
              \/ Resets
              \/ \A user_id \in Range(state_manager.locked_elements)
                                  \ {task_uid[w]} : LocksStand(user_id)]_vars

\* A user that held e2 has selected e1, which another user owned: the other
\* user still owns e1, and e2 is unlocked.
C35_Witness ==
    /\ inbox.message.type = "element_select"
    /\ inbox.message.element_ids = <<"e1">>
    /\ inbox.held = {"e2"}
    /\ OwnedBy(state_manager, "e1") \notin {NoUser, task_uid[inbox.from]}
    /\ ~IsLocked(state_manager, "e2")

\* ------------------------------------------------------------- C36
\* C36: a user that owns an element and sends an element_select that names
\* it owns it when the selection is done, whatever the other users select:
\* between the release and the new lock no other request gets at the store.
C36_ReselectedStaysOwned ==
    [][\A w \in WebSockets :
          Handles(w, "element_select") =>
              \A e \in HeldBy(state_manager, task_uid[w])
                         \cap Requested(inbox'.message.element_ids) :
                  OwnedBy(state_manager', e) = task_uid[w]]_vars

\* A user that held e1 has selected e1 and e2 while another user, who owns
\* e2, is connected: the first still owns e1.
C36_Witness ==
    /\ inbox.message.type = "element_select"
    /\ inbox.message.element_ids = <<"e1", "e2">>
    /\ "e1" \in inbox.held
    /\ OwnedBy(state_manager, "e1") = task_uid[inbox.from]
    /\ \E v \in WebSockets \ {inbox.from} :
           pc[v] = "loop" /\ OwnedBy(state_manager, "e2") = task_uid[v]

\* ------------------------------------------------------------- C37
\* C37: an element_select made for a user id that is not in the users map
\* acquires no lock, leaves the lock map as it was and sends no
\* locked_elements_update: the failed release ends the selection before any
\* lock is attempted.
C37_UnknownUserSelectsNothing ==
    [][\A c \in Callers :
          (Runs(c, "element_select")
              /\ call[c].user_id \notin DOMAIN state_manager.users) =>
              /\ state_manager'.locked_elements = state_manager.locked_elements
              /\ HeldBy(state_manager', call[c].user_id) = {}
              /\ outbox' = {}]_vars

\* ------------------------------------------------------------- C38
\* The step in which a caller ends its operation frees the section, whether
\* the operation succeeded or failed, and while a caller is inside no step
\* touches the registry or the transport.
C38_SectionReleased ==
    /\ \A c \in Callers :
           (call[c].status = "checked" /\ call'[c].status = "done") =>
               ~locked(call')
    /\ locked(call) => UNCHANGED server

\* Every pending store operation gets the section and returns.
C38_EveryCallReturns ==
    \A c \in Callers : (call[c].status = "pending") ~> (call[c].status = "done")

\* C38: every store operation releases the exclusive section when it ends,
\* on success and on failure, and waits on no send, receive or registry call
\* while it holds it; with callers running at once every pending operation
\* gets the section in the end and returns.
C38_NoStarvation ==
    /\ [][C38_SectionReleased]_vars
    /\ C38_EveryCallReturns

\* Two callers have both been through the section, one with a success and
\* one with a failure, and the section is free.
C38_Witness ==
    \E c, d \in Callers :
        /\ call[c].status = "done" /\ call[c].success
        /\ call[d].status = "done" /\ ~call[d].success
        /\ ~locked(call)

====
